---- MODULE Spec2Model ----
\* A model of veda.py: the exploratory-data-analysis helpers viz_missing,
\* viz_missing_interactive, viz_distribution, viz_correlations,
\* viz_clusters_correlations and viz_correlation_interactive, together with the
\* pandas frame they read and the process-wide pyplot/seaborn state they write.
EXTENDS Integers, Sequences, FiniteSets, TLC

\* ---------------------------------------------------------------- bounds
MaxRows == 3

\* ---------------------------------------------------------------- cells
\* The missing marker of a cell (what DataFrame.isna tests for).
NaN == -1

\* The cells of the enumerated tables: missing, or one of two values.
Values == {NaN, 0, 1}

Range(s) == {s[i] : i \in DOMAIN s}

IndexOf(s, x) == CHOOSE i \in DOMAIN s : s[i] = x

RECURSIVE SumF(_, _)
SumF(f, S) ==
    IF S = {} THEN 0
    ELSE LET i == CHOOSE j \in S : TRUE IN f[i] + SumF(f, S \ {i})

RECURSIVE GCD(_, _)
GCD(a, b) == IF b = 0 THEN a ELSE GCD(b, a % b)

Sign(x) == IF x > 0 THEN 1 ELSE IF x < 0 THEN -1 ELSE 0

\* ---------------------------------------------------------------- numbers
\* A float result is kept exactly.  A correlation c / sqrt(d) is the record of
\* its sign and of its square as a reduced fraction; the undefined result (NaN)
\* has def = FALSE.
Undefined == [def |-> FALSE, sgn |-> 0, num |-> 0, den |-> 1]

One == [def |-> TRUE, sgn |-> 1, num |-> 1, den |-> 1]

Ratio(c, d) ==
    LET g == GCD(c * c, d)
    IN [def |-> TRUE, sgn |-> Sign(c), num |-> (c * c) \div g, den |-> d \div g]

\* ---------------------------------------------------------------- tables
\* A DataFrame: nrows rows, named columns in order, a dtype and the cells of
\* each column.
Names == <<"A", "B", "C">>

NumericDtype == "float64"
ObjectDtype == "object"

MkTable(n, cols, dt, cells) ==
    [nrows |-> n, columns |-> cols, dtype |-> dt, cells |-> cells]

\* Row i comes before row j, or equals it, in the lexicographic order of the
\* cells of the columns cols.
RECURSIVE LexLeq(_, _, _, _)
LexLeq(t, cols, i, j) ==
    IF cols = <<>> THEN TRUE
    ELSE LET x == t.cells[Head(cols)]
         IN x[i] < x[j] \/ (x[i] = x[j] /\ LexLeq(t, Tail(cols), i, j))

RowsSorted(t) == \A i \in 1..(t.nrows - 1) : LexLeq(t, t.columns, i, i + 1)

\* Tables of k numeric columns and up to MaxRows rows, every cell free.  No
\* statement of veda.py depends on the order of the rows (isna().mean() and
\* corr() are sums over rows), so one table stands for its row permutations:
\* the one with its rows in order.
FreeTables(k) ==
    UNION { { t \in { MkTable(n, SubSeq(Names, 1, k),
                              [c \in Range(SubSeq(Names, 1, k)) |-> NumericDtype], f)
                      : f \in [Range(SubSeq(Names, 1, k)) -> [1..n -> Values]] }
              : RowsSorted(t) }
            : n \in 1..MaxRows }

AddColumn(t, name, dt, col) ==
    MkTable(t.nrows, Append(t.columns, name),
            [c \in Range(t.columns) \cup {name} |->
                IF c = name THEN dt ELSE t.dtype[c]],
            [c \in Range(t.columns) \cup {name} |->
                IF c = name THEN col ELSE t.cells[c]])

\* One or two free numeric columns, optionally followed by an all-missing
\* numeric column or by a column of labels (dtype object).
Tables ==
    FreeTables(1) \cup FreeTables(2)
    \cup { AddColumn(t, Names[Len(t.columns) + 1], NumericDtype, [i \in 1..t.nrows |-> NaN])
           : t \in FreeTables(1) \cup FreeTables(2) }
    \cup { AddColumn(t, Names[Len(t.columns) + 1], ObjectDtype, [i \in 1..t.nrows |-> 0])
           : t \in FreeTables(1) \cup FreeTables(2) }

\* The table of the end-to-end scenario: A = [1, 2, None, 4], B = [10, 20, 30, 40].
ExampleTable ==
    MkTable(4, <<"A", "B">>, [c \in {"A", "B"} |-> NumericDtype],
            [c \in {"A", "B"} |->
                IF c = "A" THEN <<1, 2, NaN, 4>> ELSE <<10, 20, 30, 40>>])

\* Three numeric columns whose matrix holds a weak correlation (A, B: 0.5) next
\* to undefined cells (A, C and B, C share one row only).
MixedTable ==
    MkTable(4, Names, [c \in Range(Names) |-> NumericDtype],
            [c \in Range(Names) |->
                IF c = "A" THEN <<0, 0, 1, NaN>>
                ELSE IF c = "B" THEN <<0, 1, 1, NaN>>
                ELSE <<NaN, NaN, 1, 0>>])

\* DataFrame.drop(columns=[c])
DropColumn(t, c) ==
    MkTable(t.nrows, SelectSeq(t.columns, LAMBDA x : x # c),
            [x \in Range(t.columns) \ {c} |-> t.dtype[x]],
            [x \in Range(t.columns) \ {c} |-> t.cells[x]])

\* ---------------------------------------------------------------- missingness
\* df.isna(): the boolean frame of the missing cells.
IsNa(t) == [c \in Range(t.columns) |-> [i \in 1..t.nrows |-> t.cells[c][i] = NaN]]

NaCount(col) == Cardinality({i \in DOMAIN col : col[i]})

\* Series/DataFrame.mean() of a boolean column, as the exact fraction num/den;
\* the mean of no rows is NaN.
Mean(col) ==
    IF Len(col) = 0 THEN [def |-> FALSE, num |-> 0, den |-> 1]
    ELSE [def |-> TRUE, num |-> NaCount(col), den |-> Len(col)]

Percent == 100

\* 100 * na_df.mean()
Scale(k, q) == IF q.def THEN [q EXCEPT !.num = k * q.num] ELSE q

\* Mutant: the share of the cells that hold a value (notna for isna).
NaPercentNotNa(t) ==
    [c \in Range(t.columns) |->
        Scale(Percent, Mean([i \in 1..t.nrows |-> t.cells[c][i] # NaN]))]

NaPercent(t) == [c \in Range(t.columns) |-> Scale(Percent, Mean(IsNa(t)[c]))]

\* ---------------------------------------------------------------- correlation
\* DataFrame.corr(numeric_only=True, method=...), min_periods at its default.
MinPeriods == 1

SupportedMethods == {"pearson", "spearman", "kendall"}

\* data._get_numeric_data().columns
NumericColumns(t) == SelectSeq(t.columns, LAMBDA c : t.dtype[c] = NumericDtype)

\* Mutant: the rows complete in every numeric column (listwise deletion).
ValidListwise(t, a, b) ==
    {i \in 1..t.nrows : \A c \in Range(NumericColumns(t)) : t.cells[c][i] # NaN}

\* The rows on which both columns hold a value.
Valid(t, a, b) == {i \in 1..t.nrows : t.cells[a][i] # NaN /\ t.cells[b][i] # NaN}

\* cov(x, y) / sqrt(var(x) * var(y)) over the rows S; NaN with fewer than
\* min_periods rows or a zero divisor.
PearsonOn(x, y, S) ==
    LET n == Cardinality(S)
        sx == SumF(x, S)
        sy == SumF(y, S)
        sxx == SumF([i \in S |-> x[i] * x[i]], S)
        syy == SumF([i \in S |-> y[i] * y[i]], S)
        sxy == SumF([i \in S |-> x[i] * y[i]], S)
        c == n * sxy - sx * sy
        d == (n * sxx - sx * sx) * (n * syy - sy * sy)
    IN IF n < MinPeriods \/ d = 0 THEN Undefined ELSE Ratio(c, d)

\* Twice the average rank of each value among the rows S.
Rank2(x, S) ==
    [i \in S |-> 2 * Cardinality({j \in S : x[j] < x[i]})
                 + Cardinality({j \in S : x[j] = x[i]}) + 1]

Pearson(t, a, b) == PearsonOn(t.cells[a], t.cells[b], Valid(t, a, b))

Spearman(t, a, b) ==
    LET S == Valid(t, a, b)
    IN PearsonOn(Rank2(t.cells[a], S), Rank2(t.cells[b], S), S)

\* Kendall's tau-b; the diagonal is set to 1.0 without being computed.
Kendall(t, a, b) ==
    LET S == Valid(t, a, b)
        x == t.cells[a]
        y == t.cells[b]
        pairs == {p \in S \X S : p[1] < p[2]}
        c == SumF([p \in pairs |-> Sign(x[p[1]] - x[p[2]]) * Sign(y[p[1]] - y[p[2]])], pairs)
        ux == Cardinality({p \in pairs : x[p[1]] # x[p[2]]})
        uy == Cardinality({p \in pairs : y[p[1]] # y[p[2]]})
    IN IF Cardinality(S) < MinPeriods THEN Undefined
       ELSE IF a = b THEN One
       ELSE IF ux * uy = 0 THEN Undefined
       ELSE Ratio(c, ux * uy)

Pairwise(t, method, a, b) ==
    CASE method = "pearson" -> Pearson(t, a, b)
      [] method = "spearman" -> Spearman(t, a, b)
      [] method = "kendall" -> Kendall(t, a, b)
      [] OTHER -> Undefined

\* Mutant: the method is never validated.
CorrNeverRaises(method) == FALSE

\* corr raises ValueError for a method it does not know.
CorrRaises(method) == method \notin SupportedMethods

\* The matrix: one half is computed, the other mirrored.
Corr(t, method) ==
    LET cols == NumericColumns(t)
    IN [index |-> cols, columns |-> cols,
        val |-> [p \in Range(cols) \X Range(cols) |->
                    IF IndexOf(cols, p[2]) <= IndexOf(cols, p[1])
                    THEN Pairwise(t, method, p[1], p[2])
                    ELSE Pairwise(t, method, p[2], p[1])]]

\* corr_matrix.dropna(how="all", axis="columns")
DropnaColumns(m) ==
    LET keep == SelectSeq(m.columns,
                          LAMBDA j : \E i \in Range(m.index) : m.val[<<i, j>>].def)
    IN [index |-> m.index, columns |-> keep,
        val |-> [p \in Range(m.index) \X Range(keep) |-> m.val[p]]]

\* corr_matrix.dropna(how="all", axis="index")
DropnaIndex(m) ==
    LET keep == SelectSeq(m.index,
                          LAMBDA i : \E j \in Range(m.columns) : m.val[<<i, j>>].def)
    IN [index |-> keep, columns |-> m.columns,
        val |-> [p \in Range(keep) \X Range(m.columns) |-> m.val[p]]]

\* Mutant: only the columns are dropped.
DropnaColumnsOnly(m) == DropnaColumns(m)

\* lines 182-185
Dropna(m) == DropnaIndex(DropnaColumns(m))

\* ---------------------------------------------------------------- mask
\* A cutoff is the fraction num / den, den > 0.
Q(n, d) == [num |-> n, den |-> d]

DefaultCutoff == Q(0, 1)

\* The default, two cutoffs within (0, 1], one below 0 and one above 1.
Cutoffs == {Q(-1, 2), DefaultCutoff, Q(1, 2), Q(1, 1), Q(3, 2)}

Abs(v) == IF v.def THEN [v EXCEPT !.sgn = v.sgn * v.sgn] ELSE v

\* v >= cutoff; a comparison with NaN is False.
GreaterEqual(v, c) ==
    /\ v.def
    /\ IF v.sgn >= 0
       THEN c.num <= 0 \/ v.num * c.den * c.den >= c.num * c.num * v.den
       ELSE c.num < 0 /\ v.num * c.den * c.den <= c.num * c.num * v.den

\* Mutant: the values are compared without taking their magnitude.
MaskNoAbs(m, cutoff) == [p \in DOMAIN m.val |-> GreaterEqual(m.val[p], cutoff)]

\* corr_matrix.abs() >= cutoff
Mask(m, cutoff) == [p \in DOMAIN m.val |-> GreaterEqual(Abs(m.val[p]), cutoff)]

\* ---------------------------------------------------------------- rendering
\* sns.heatmap(data, mask=hide, annot=True): the cells drawn with their value.
\* seaborn also hides a cell whose value is null.
HeatmapCells(m, hide) == {p \in DOMAIN m.val : ~hide[p] /\ m.val[p].def}

\* ~mask
Invert(mask) == [p \in DOMAIN mask |-> ~mask[p]]

\* px.imshow(data): every cell that holds a value is drawn with it.
ImshowCells(m) == {p \in DOMAIN m.val : m.val[p].def}

\* sns.heatmap cannot scale the colours of a matrix without cells.
HeatmapRaises(m) == Len(m.index) = 0 \/ Len(m.columns) = 0

\* sns.clustermap: the linkage needs two rows at least and finite values only.
ClustermapRaises(m) ==
    Len(m.index) < 2 \/ Len(m.columns) = 0 \/ \E p \in DOMAIN m.val : ~m.val[p].def

\* ---------------------------------------------------------------- state
Threads == {"t1", "t2"}

Methods == SupportedMethods \cup {"bogus"}

AbsentColumn == "Z"

VARIABLES
    table,   \* the caller's DataFrame
    call,    \* per call site: the running call, its arguments and locals
    style,   \* seaborn's axes style (matplotlib rcParams, process-wide)
    figs     \* pyplot's figures in creation order (process-wide)

vars == <<table, call, style, figs>>

NoMatrix == [index |-> <<>>, columns |-> <<>>, val |-> [p \in {} |-> Undefined]]
NoMask == [p \in {} |-> FALSE]
NoPercent == [c \in {} |-> Undefined]

Idle ==
    [pc |-> "idle", fn |-> "", method |-> "", cutoff |-> DefaultCutoff,
     x_target |-> "", return_fig |-> FALSE,
     na_percent |-> NoPercent, corr_matrix |-> NoMatrix, mask |-> NoMask,
     chart |-> {}, rendered |-> FALSE, fig |-> 0, made |-> 0, styled |-> FALSE,
     error |-> ""]

CorrFns == {"viz_correlations", "viz_clusters_correlations", "viz_correlation_interactive"}

AllMissing(t, c) == \A i \in 1..t.nrows : t.cells[c][i] = NaN

\* Mutant: the all-missing columns are dropped from the caller's frame in place.
FrameDropnaInplace(t) ==
    LET keep == SelectSeq(t.columns, LAMBDA c : ~AllMissing(t, c))
    IN MkTable(t.nrows, keep, [c \in Range(keep) |-> t.dtype[c]],
               [c \in Range(keep) |-> t.cells[c]])

\* What a statement leaves of the caller's frame: isna, mean, corr and column
\* selection return new objects, and dropna is applied to the result of corr.
FrameAfterIsna(t) == t
FrameAfterSelect(t) == t
FrameAfterCorr(t) == t

Set(th, rec) == call' = [call EXCEPT ![th] = rec]

\* ---------------------------------------------------------------- pyplot
OpenFigs == {i \in DOMAIN figs : figs[i].open}

\* plt.figure() / plt.subplots(): a new figure, which becomes the current one.
\* Axes take the style in force when they are created.
NewFigure(th, axes) ==
    [owner |-> th, axstyle |-> IF axes THEN style ELSE "none", artists |-> {}, open |-> TRUE]

\* plt.gcf(): the open figure created last, 0 when there is none.
CurrentFig == IF OpenFigs = {} THEN 0 ELSE CHOOSE i \in OpenFigs : \A j \in OpenFigs : j <= i

\* Drawing on the axes of figure i.
DrawOn(fs, i, th) == [fs EXCEPT ![i].artists = @ \cup {th}]

\* plt.gca(): the axes of the current figure, created when it has none; a new
\* figure when none is open.
WithCurrentAxes(th) ==
    IF CurrentFig = 0 THEN Append(figs, NewFigure(th, TRUE))
    ELSE IF figs[CurrentFig].axstyle = "none"
         THEN [figs EXCEPT ![CurrentFig].axstyle = style]
         ELSE figs

\* plt.show(): every open figure is displayed and closed.
ShowAll == [i \in DOMAIN figs |-> [figs[i] EXCEPT !.open = FALSE]]

\* ---------------------------------------------------------------- viz_missing
CallVizMissing(th) ==
    /\ call[th].pc = "idle"
    /\ Set(th, [Idle EXCEPT !.pc = "isna", !.fn = "viz_missing"])
    /\ UNCHANGED <<table, style, figs>>

MissingPercent(th) ==
    /\ call[th].pc = "isna"
    /\ Set(th, [call[th] EXCEPT !.pc = "subplots", !.na_percent = NaPercent(table)])
    /\ table' = FrameAfterIsna(table)
    /\ UNCHANGED <<style, figs>>

MissingSubplots(th) ==
    /\ call[th].pc = "subplots"
    /\ figs' = Append(figs, NewFigure(th, TRUE))
    /\ Set(th, [call[th] EXCEPT !.pc = "draw", !.fig = Len(figs) + 1, !.made = @ + 1])
    /\ UNCHANGED <<table, style>>

\* The bar chart and the heatmap go to the axes the call holds.
MissingDraw(th) ==
    /\ call[th].pc = "draw"
    /\ call[th].fn = "viz_missing"
    /\ figs' = DrawOn(figs, call[th].fig, th)
    /\ Set(th, [call[th] EXCEPT !.pc = "show", !.rendered = TRUE])
    /\ UNCHANGED <<table, style>>

PltShow(th) ==
    /\ call[th].pc = "show"
    /\ figs' = ShowAll
    /\ Set(th, [call[th] EXCEPT !.pc = "done"])
    /\ UNCHANGED <<table, style>>

\* ---------------------------------------------------------------- viz_missing_interactive
CallVizMissingInteractive(th) ==
    /\ call[th].pc = "idle"
    /\ \E r \in BOOLEAN :
         Set(th, [Idle EXCEPT !.pc = "percent", !.fn = "viz_missing_interactive",
                              !.return_fig = r])
    /\ UNCHANGED <<table, style, figs>>

InteractivePercent(th) ==
    /\ call[th].pc = "percent"
    /\ Set(th, [call[th] EXCEPT !.pc = "charts", !.na_percent = NaPercent(table)])
    /\ table' = FrameAfterIsna(table)
    /\ UNCHANGED <<style, figs>>

\* px.bar and px.imshow build figures of their own, outside pyplot.
InteractiveCharts(th) ==
    /\ call[th].pc = "charts"
    /\ Set(th, [call[th] EXCEPT !.pc = "return"])
    /\ table' = FrameAfterIsna(table)
    /\ UNCHANGED <<style, figs>>

InteractiveReturn(th) ==
    /\ call[th].pc = "return"
    /\ Set(th, [call[th] EXCEPT !.pc = "done", !.rendered = ~call[th].return_fig])
    /\ UNCHANGED <<table, style, figs>>

\* ---------------------------------------------------------------- viz_distribution
CallVizDistribution(th) ==
    /\ call[th].pc = "idle"
    /\ \E x \in Range(table.columns) \cup {AbsentColumn} :
         Set(th, [Idle EXCEPT !.pc = "set_style", !.fn = "viz_distribution",
                              !.x_target = x])
    /\ UNCHANGED <<table, style, figs>>

DistSetStyle(th) ==
    /\ call[th].pc = "set_style"
    /\ call[th].fn = "viz_distribution"
    /\ style' = "dark"
    /\ Set(th, [call[th] EXCEPT !.pc = "subplots2", !.styled = TRUE])
    /\ UNCHANGED <<table, figs>>

DistSubplots(th) ==
    /\ call[th].pc = "subplots2"
    /\ figs' = Append(figs, NewFigure(th, TRUE))
    /\ Set(th, [call[th] EXCEPT !.pc = "stats", !.fig = Len(figs) + 1, !.made = @ + 1])
    /\ UNCHANGED <<table, style>>

\* data[x_target] raises KeyError for an absent column; the mean of a column of
\* labels raises TypeError.
SelectError(t, x) ==
    IF x \notin Range(t.columns) THEN "InvalidColumn"
    ELSE IF t.dtype[x] # NumericDtype THEN "TypeError"
    ELSE ""

DistStats(th) ==
    /\ call[th].pc = "stats"
    /\ LET e == SelectError(table, call[th].x_target)
       IN Set(th, [call[th] EXCEPT !.pc = IF e = "" THEN "draw2" ELSE "failed",
                                   !.error = e])
    /\ table' = FrameAfterSelect(table)
    /\ UNCHANGED <<style, figs>>

DistDraw(th) ==
    /\ call[th].pc = "draw2"
    /\ figs' = DrawOn(figs, call[th].fig, th)
    /\ Set(th, [call[th] EXCEPT !.pc = "show", !.rendered = TRUE])
    /\ UNCHANGED <<table, style>>

\* ---------------------------------------------------------------- correlations
\* The three correlation functions open with the same three statements.
CallVizCorrelations(th, M, C) ==
    /\ call[th].pc = "idle"
    /\ \E m \in M, c \in C :
         Set(th, [Idle EXCEPT !.pc = "corr", !.fn = "viz_correlations",
                              !.method = m, !.cutoff = c])
    /\ UNCHANGED <<table, style, figs>>

CallVizClustersCorrelations(th, M, C) ==
    /\ call[th].pc = "idle"
    /\ \E m \in M, c \in C :
         Set(th, [Idle EXCEPT !.pc = "corr", !.fn = "viz_clusters_correlations",
                              !.method = m, !.cutoff = c])
    /\ UNCHANGED <<table, style, figs>>

CallVizCorrelationInteractive(th, M, C) ==
    /\ call[th].pc = "idle"
    /\ \E m \in M, c \in C :
         Set(th, [Idle EXCEPT !.pc = "corr", !.fn = "viz_correlation_interactive",
                              !.method = m, !.cutoff = c])
    /\ UNCHANGED <<table, style, figs>>

CorrCompute(th) ==
    /\ call[th].pc = "corr"
    /\ IF CorrRaises(call[th].method)
       THEN Set(th, [call[th] EXCEPT !.pc = "failed", !.error = "UnknownMethod"])
       ELSE Set(th, [call[th] EXCEPT !.pc = "dropna",
                                     !.corr_matrix = Corr(table, call[th].method)])
    /\ table' = FrameAfterCorr(table)
    /\ UNCHANGED <<style, figs>>

CorrDropna(th) ==
    /\ call[th].pc = "dropna"
    /\ Set(th, [call[th] EXCEPT !.pc = "mask", !.corr_matrix = Dropna(@)])
    /\ UNCHANGED <<table, style, figs>>

CorrMask(th) ==
    /\ call[th].pc = "mask"
    /\ Set(th, [call[th] EXCEPT
                  !.pc = IF call[th].fn = "viz_correlation_interactive"
                         THEN "imshow" ELSE "figure",
                  !.mask = Mask(call[th].corr_matrix, call[th].cutoff)])
    /\ UNCHANGED <<table, style, figs>>

\* plt.figure(figsize=...): a figure without axes.
CorrFigure(th) ==
    /\ call[th].pc = "figure"
    /\ figs' = Append(figs, NewFigure(th, FALSE))
    /\ Set(th, [call[th] EXCEPT !.pc = "set_style", !.fig = Len(figs) + 1, !.made = @ + 1])
    /\ UNCHANGED <<table, style>>

CorrSetStyle(th) ==
    /\ call[th].pc = "set_style"
    /\ call[th].fn \in CorrFns
    /\ style' = "white"
    /\ Set(th, [call[th] EXCEPT
                  !.pc = IF call[th].fn = "viz_correlations" THEN "heatmap" ELSE "clustermap",
                  !.styled = TRUE])
    /\ UNCHANGED <<table, figs>>

\* sns.heatmap without ax draws on plt.gca().
Heatmap(th) ==
    /\ call[th].pc = "heatmap"
    /\ IF HeatmapRaises(call[th].corr_matrix)
       THEN /\ Set(th, [call[th] EXCEPT !.pc = "failed", !.error = "ValueError"])
            /\ UNCHANGED figs
       ELSE LET target == IF CurrentFig = 0 THEN Len(figs) + 1 ELSE CurrentFig
            IN /\ figs' = DrawOn(WithCurrentAxes(th), target, th)
               /\ Set(th, [call[th] EXCEPT
                             !.pc = "done",
                             !.made = IF CurrentFig = 0 THEN @ + 1 ELSE @,
                             !.chart = HeatmapCells(call[th].corr_matrix,
                                                    Invert(call[th].mask)),
                             !.rendered = TRUE])
    /\ UNCHANGED <<table, style>>

\* sns.clustermap opens a figure of its own, then clusters and draws.
Clustermap(th) ==
    /\ call[th].pc = "clustermap"
    /\ IF ClustermapRaises(call[th].corr_matrix)
       THEN /\ figs' = Append(figs, NewFigure(th, TRUE))
            /\ Set(th, [call[th] EXCEPT !.pc = "failed", !.error = "ValueError",
                                        !.made = @ + 1])
       ELSE /\ figs' = DrawOn(Append(figs, NewFigure(th, TRUE)), Len(figs) + 1, th)
            /\ Set(th, [call[th] EXCEPT
                          !.pc = "done", !.made = @ + 1,
                          !.chart = HeatmapCells(call[th].corr_matrix,
                                                 Invert(call[th].mask)),
                          !.rendered = TRUE])
    /\ UNCHANGED <<table, style>>

\* px.imshow(corr_matrix, ...)
Imshow(th) ==
    /\ call[th].pc = "imshow"
    /\ Set(th, [call[th] EXCEPT !.pc = "fig_show",
                                !.chart = ImshowCells(call[th].corr_matrix)])
    /\ UNCHANGED <<table, style, figs>>

\* fig_heat.show()
FigShow(th) ==
    /\ call[th].pc = "fig_show"
    /\ Set(th, [call[th] EXCEPT !.pc = "done", !.rendered = TRUE])
    /\ UNCHANGED <<table, style, figs>>

\* ---------------------------------------------------------------- specifications
Step(th, M, C) ==
    \/ CallVizMissing(th)
    \/ MissingPercent(th)
    \/ MissingSubplots(th)
    \/ MissingDraw(th)
    \/ PltShow(th)
    \/ CallVizMissingInteractive(th)
    \/ InteractivePercent(th)
    \/ InteractiveCharts(th)
    \/ InteractiveReturn(th)
    \/ CallVizDistribution(th)
    \/ DistSetStyle(th)
    \/ DistSubplots(th)
    \/ DistStats(th)
    \/ DistDraw(th)
    \/ CallVizCorrelations(th, M, C)
    \/ CallVizClustersCorrelations(th, M, C)
    \/ CallVizCorrelationInteractive(th, M, C)
    \/ CorrCompute(th)
    \/ CorrDropna(th)
    \/ CorrMask(th)
    \/ CorrFigure(th)
    \/ CorrSetStyle(th)
    \/ Heatmap(th)
    \/ Clustermap(th)
    \/ Imshow(th)
    \/ FigShow(th)

\* One call site, every table, method and cutoff.
Init ==
    /\ table \in Tables \cup {ExampleTable, MixedTable}
    /\ call = [th \in Threads |-> Idle]
    /\ style = "default"
    /\ figs = <<>>

Next == Step("t1", Methods, Cutoffs)

Spec == Init /\ [][Next]_vars

\* Two call sites running at once, statement by statement.
ConcTables ==
    {ExampleTable,
     AddColumn(ExampleTable, "C", NumericDtype, <<NaN, NaN, NaN, NaN>>)}

ConcMethods == {"pearson", "bogus"}

InitConc ==
    /\ table \in ConcTables
    /\ call = [th \in Threads |-> Idle]
    /\ style = "default"
    /\ figs = <<>>

NextConc == \E th \in Threads : Step(th, ConcMethods, {DefaultCutoff})

SpecConc == InitConc /\ [][NextConc]_vars

\* ---------------------------------------------------------------- properties
\* The call of th has computed its mask (line 186, 214 or 237).
MaskComputed(th) ==
    /\ call[th].fn \in CorrFns
    /\ \/ call[th].pc \in {"figure", "set_style", "heatmap", "clustermap",
                           "imshow", "fig_show", "done"}
       \/ call[th].error = "ValueError"

\* The call of th has dropped the all-undefined columns and rows.
DropnaDone(th) == call[th].fn \in CorrFns /\ (call[th].pc = "mask" \/ MaskComputed(th))

\* |v| >= c for a defined v.
AbsAtLeast(v, c) ==
    v.def /\ (c.num <= 0 \/ v.num * c.den * c.den >= c.num * c.num * v.den)

\* C1: in each correlation function, once the mask is computed, a cell of the
\* retained matrix is marked significant exactly when its value is defined and
\* its magnitude is at least the cutoff; an undefined cell is never marked.
C1_MaskIffSignificant ==
    \A th \in Threads :
        MaskComputed(th) =>
            LET m == call[th].corr_matrix
            IN /\ DOMAIN call[th].mask = Range(m.index) \X Range(m.columns)
               /\ \A p \in DOMAIN call[th].mask :
                    call[th].mask[p] <=> AbsAtLeast(m.val[p], call[th].cutoff)

C1_Witness ==
    \E th \in Threads :
        /\ MaskComputed(th)
        /\ LET m == call[th].corr_matrix
           IN \E p, q, r \in DOMAIN call[th].mask :
                /\ call[th].mask[p]
                /\ ~call[th].mask[q] /\ m.val[q].def
                /\ ~m.val[r].def

\* C2: after the two drops and before the mask is computed, the matrix is
\* square, its rows and columns carry the same labels, and no row and no column
\* is undefined throughout.
C2_SquareNoEmptyLine ==
    \A th \in Threads :
        DropnaDone(th) =>
            LET m == call[th].corr_matrix
            IN /\ Len(m.index) = Len(m.columns)
               /\ Range(m.index) = Range(m.columns)
               /\ DOMAIN m.val = Range(m.index) \X Range(m.columns)
               /\ \A i \in Range(m.index) : \E j \in Range(m.columns) : m.val[<<i, j>>].def
               /\ \A j \in Range(m.columns) : \E i \in Range(m.index) : m.val[<<i, j>>].def

C2_Witness ==
    \E th \in Threads :
        /\ call[th].fn \in CorrFns
        /\ call[th].pc = "mask"
        /\ call[th].mask = NoMask
        /\ Len(call[th].corr_matrix.index) >= 2
        /\ Len(call[th].corr_matrix.index) < Len(NumericColumns(table))

\* The cutoff lies within [0, 1].
InRange(c) == 0 <= c.num /\ c.num <= c.den

\* C3: a correlation chart that was rendered shows the value of no cell whose
\* mask is false (stated for the cutoffs within [0, 1]).
C3_ChartMasked ==
    \A th \in Threads :
        (call[th].fn \in CorrFns /\ call[th].rendered /\ InRange(call[th].cutoff)) =>
            \A p \in call[th].chart : call[th].mask[p]

\* The call of th has computed na_percent (line 26 or 61).
PercentComputed(th) ==
    \/ call[th].fn = "viz_missing" /\ call[th].pc \notin {"isna", "failed"}
    \/ call[th].fn = "viz_missing_interactive" /\ call[th].pc \notin {"percent", "failed"}

MissingCells(t, c) == Cardinality({i \in 1..t.nrows : t.cells[c][i] = NaN})

\* C4 as stated: the value computed for a column is the fraction of its cells
\* that are missing, within [0, 1], and {A: 0.25, B: 0.0} for the example.
C4_Fraction ==
    \A th \in Threads :
        (PercentComputed(th) /\ table.nrows >= 1) =>
            /\ \A c \in Range(table.columns) :
                 LET q == call[th].na_percent[c]
                 IN /\ q.def
                    /\ q.num * table.nrows = MissingCells(table, c) * q.den
                    /\ 0 <= q.num /\ q.num <= q.den
            /\ table = ExampleTable =>
                 /\ 4 * call[th].na_percent["A"].num = call[th].na_percent["A"].den
                 /\ call[th].na_percent["B"].num = 0

\* C4 amended: the value computed for a column is the percentage of its cells
\* that are missing, 100 * missing / rows, within [0, 100]; the values sum to
\* at most 100 * columns; the example gives {A: 25.0, B: 0.0}.
C4_Percentage ==
    \A th \in Threads :
        (PercentComputed(th) /\ table.nrows >= 1) =>
            LET q == call[th].na_percent
                cols == Range(table.columns)
            IN /\ DOMAIN q = cols
               /\ \A c \in cols :
                    /\ q[c].def
                    /\ q[c].den = table.nrows
                    /\ q[c].num * table.nrows = 100 * MissingCells(table, c) * q[c].den
                    /\ 0 <= q[c].num /\ q[c].num <= 100 * q[c].den
               /\ SumF([c \in cols |-> q[c].num], cols)
                    <= 100 * Cardinality(cols) * table.nrows
               /\ table = ExampleTable =>
                    /\ q["A"].num = 25 * q["A"].den
                    /\ q["B"].num = 0

C4_Witness ==
    \E th \in Threads :
        /\ PercentComputed(th)
        /\ table = ExampleTable
        /\ call[th].na_percent["A"].num > 0

\* The functions that set a style, and the style each sets (lines 112, 188, 216).
StyleSetters == {"viz_distribution", "viz_correlations", "viz_clusters_correlations"}

StyleOf(fn) == IF fn = "viz_distribution" THEN "dark" ELSE "white"

\* C5: whatever the interleaving of two calls, a call draws only on a figure
\* it created, and the axes a style-setting call draws on have the style it set.
C5_OwnFigureOwnStyle ==
    \A i \in DOMAIN figs :
        \A th \in figs[i].artists :
            /\ figs[i].owner = th
            /\ call[th].fn \in StyleSetters => figs[i].axstyle = StyleOf(call[th].fn)

\* C6: a viz_distribution call that failed on an absent column has created no
\* figure and has not changed the style.
C6_NoPartialResult ==
    \A th \in Threads :
        (call[th].fn = "viz_distribution" /\ call[th].error = "InvalidColumn") =>
            call[th].made = 0 /\ ~call[th].styled

\* C7: a correlation call with a method that is not supported fails at its
\* first statement with the unknown-method error, having created no figure,
\* set no style and shown nothing.
C7_UnknownMethod ==
    \A th \in Threads :
        (call[th].fn \in CorrFns /\ call[th].pc # "corr"
         /\ call[th].method \notin {"pearson", "spearman", "kendall"}) =>
            /\ call[th].pc = "failed"
            /\ call[th].error = "UnknownMethod"
            /\ call[th].made = 0
            /\ ~call[th].styled
            /\ ~call[th].rendered
            /\ call[th].chart = {}
            /\ \A i \in DOMAIN figs : figs[i].owner # th

C7_Witness ==
    \E th \in Threads :
        /\ call[th].fn \in CorrFns
        /\ call[th].method = "bogus"
        /\ call[th].pc = "failed"
        /\ call[th].error = "UnknownMethod"

\* C8: no step of any function changes the caller's table.
C8_TableUnchanged == [][table' = table]_vars

C8_Witness ==
    /\ call["t1"].pc = "failed"
    /\ call["t2"].pc = "done"
    /\ call["t2"].fn \in CorrFns
    /\ \E c \in Range(table.columns) : AllMissing(table, c)

Clamp(c) == IF c.num < 0 THEN Q(0, 1) ELSE IF c.num > c.den THEN Q(1, 1) ELSE c

\* C9: a call with a cutoff outside [0, 1] that does not fail has the mask of
\* the cutoff clamped into [0, 1].
C9_ClampOrFail ==
    \A th \in Threads :
        (call[th].fn \in CorrFns /\ call[th].pc = "done" /\ ~InRange(call[th].cutoff)) =>
            \A p \in DOMAIN call[th].mask :
                call[th].mask[p] <=>
                    AbsAtLeast(call[th].corr_matrix.val[p], Clamp(call[th].cutoff))

\* C10: the retained matrix and the mask of a table with an all-missing column
\* are those of the table without that column.
C10_AllMissingColumn ==
    \A th \in Threads :
        MaskComputed(th) =>
            \A c \in Range(table.columns) :
                AllMissing(table, c) =>
                    LET m == Dropna(Corr(DropColumn(table, c), call[th].method))
                    IN /\ call[th].corr_matrix = m
                       /\ call[th].mask = Mask(m, call[th].cutoff)
                       /\ c \notin Range(call[th].corr_matrix.index)
                       /\ c \notin Range(call[th].corr_matrix.columns)

C10_Witness ==
    \E th \in Threads :
        /\ MaskComputed(th)
        /\ \E c \in Range(table.columns) :
             AllMissing(table, c) /\ table.dtype[c] = NumericDtype
        /\ \E p \in DOMAIN call[th].mask :
             /\ p[1] # p[2]
             /\ call[th].corr_matrix.val[p].def
             /\ ~call[th].mask[p]

====
